---- MODULE Spec2Model ----
(***************************************************************************)
(* The configuration resolution chain of src/src/cli.rs: ArgHandler,       *)
(* EnvHandler, FileHandler, JSONFileHandler and DefaultHandler, each       *)
(* answering handle_request(key) from its own source or forwarding the     *)
(* request to its `next` handler, and the recursive JSON key search        *)
(* JSONFileHandler::find_key_recursive.                                     *)
(*                                                                         *)
(* Text is a TLA+ string, read character by character with Len and SubSeq. *)
(***************************************************************************)
EXTENDS Integers, Sequences, FiniteSets, TLC

VARIABLES
    chain,             \* the handlers, head first; chain[i]'s `next` is chain[i+1]
    args,              \* the clap ArgMatches an ArgHandler borrows
    env,               \* the process environment: variable name -> value
    file,              \* what is at RealPath: "missing", "unreadable" or [content |-> text]
    prefix,            \* the prefix the caller asks EnvHandler for (main.rs: .prefix("FIXME_"))
    debug_assertions,  \* the build: TRUE for a debug build, FALSE for a release build
    key,               \* the key of the last handle_request call
    out,               \* the outcome of the last handle_request call on the chain's head
    json_value,        \* the serde_json Value handed to find_key_recursive
    json_key,          \* the key handed to find_key_recursive
    found              \* what find_key_recursive returned

vars == <<chain, args, env, file, prefix, debug_assertions, key, out,
          json_value, json_key, found>>

-----------------------------------------------------------------------------
(* Bounds of the model. *)

\* the longest chain of handlers
MaxChain == 2

\* the most nodes (objects, arrays and scalars) of a JSON document
MaxNodes == 4

-----------------------------------------------------------------------------
(* Option<String>, and a panic that unwinds out of handle_request. *)

None == [some |-> FALSE, panic |-> FALSE]

Some(s) == [some |-> TRUE, panic |-> FALSE, val |-> s]

Panic == [some |-> FALSE, panic |-> TRUE]

\* no call made yet
NotCalled == [called |-> FALSE]

-----------------------------------------------------------------------------
(* serde_json::Value.  An object's Map holds each name once; `members` is  *)
(* the Map in its iteration order.                                         *)

Null == [t |-> "null"]

Bool(b) == [t |-> "bool", b |-> b]

Number(n) == [t |-> "number", n |-> n]

String(s) == [t |-> "string", s |-> s]

Array(items) == [t |-> "array", items |-> items]

Object(members) == [t |-> "object", members |-> members]

Member(name, value) == [name |-> name, value |-> value]

\* map.get(key): the value stored under key, if any
MapContainsKey(members, k) == \E i \in 1..Len(members) : members[i].name = k

MapGet(members, k) == members[CHOOSE i \in 1..Len(members) : members[i].name = k].value

\* map.insert(name, value): a name already present keeps its place and takes the new value
MapInsert(members, name, value) ==
    IF MapContainsKey(members, name)
    THEN [i \in 1..Len(members) |->
             IF members[i].name = name THEN Member(name, value) ELSE members[i]]
    ELSE Append(members, Member(name, value))

-----------------------------------------------------------------------------
(* Value::to_string(): serde_json's compact serialisation.  The strings of *)
(* the model hold no character that needs escaping.                        *)

Digit(d) == SubSeq("0123456789", d + 1, d + 1)

RECURSIVE Decimal(_)
Decimal(n) ==
    IF n < 0 THEN "-" \o Decimal(-n)
    ELSE IF n < 10 THEN Digit(n)
    ELSE Decimal(n \div 10) \o Digit(n % 10)

Quote(s) == "\"" \o s \o "\""

RECURSIVE to_string(_)
RECURSIVE JoinValues(_, _)
RECURSIVE JoinMembers(_, _)

JoinValues(items, i) ==
    IF i > Len(items) THEN ""
    ELSE (IF i > 1 THEN "," ELSE "") \o to_string(items[i]) \o JoinValues(items, i + 1)

JoinMembers(members, i) ==
    IF i > Len(members) THEN ""
    ELSE (IF i > 1 THEN "," ELSE "") \o Quote(members[i].name) \o ":"
         \o to_string(members[i].value) \o JoinMembers(members, i + 1)

to_string(v) ==
    CASE v.t = "null" -> "null"
      [] v.t = "bool" -> IF v.b THEN "true" ELSE "false"
      [] v.t = "number" -> Decimal(v.n)
      [] v.t = "string" -> Quote(v.s)
      [] v.t = "array" -> "[" \o JoinValues(v.items, 1) \o "]"
      [] v.t = "object" -> "{" \o JoinMembers(v.members, 1) \o "}"

-----------------------------------------------------------------------------
(* serde_json::from_str::<Value>: a recursive-descent parser over the      *)
(* text's characters.  Numbers are integers and strings hold no escape:    *)
(* no text of the model holds a fraction, an exponent or a backslash.      *)

CharAt(text, i) == IF i >= 1 /\ i <= Len(text) THEN SubSeq(text, i, i) ELSE ""

IsWs(c) == c \in {" ", "\n", "\t", "\r"}

IsDigit(c) == c \in {"0", "1", "2", "3", "4", "5", "6", "7", "8", "9"}

DigitVal(c) == CHOOSE d \in 0..9 : Digit(d) = c

StartsWith(text, i, word) ==
    /\ i + Len(word) - 1 <= Len(text)
    /\ SubSeq(text, i, i + Len(word) - 1) = word

ParseErr == [ok |-> FALSE]

ParseOk(v, next) == [ok |-> TRUE, value |-> v, next |-> next]

RECURSIVE SkipWs(_, _)
SkipWs(text, i) == IF IsWs(CharAt(text, i)) THEN SkipWs(text, i + 1) ELSE i

\* e's value, computed once, handed to F
With(e, F(_)) == CHOOSE r \in {F(x) : x \in {e}} : TRUE

\* the digits from i on: [n |-> their value after acc, next |-> the first position past them]
RECURSIVE ParseDigits(_, _, _)
ParseDigits(text, i, acc) ==
    IF IsDigit(CharAt(text, i))
    THEN ParseDigits(text, i + 1, acc * 10 + DigitVal(CharAt(text, i)))
    ELSE [n |-> acc, next |-> i]

\* an integer at i: "0", or a non-zero digit and more digits, after an optional "-"
ParseNumber(text, i) ==
    LET neg == CharAt(text, i) = "-"
        j == IF neg THEN i + 1 ELSE i
        c == CharAt(text, j)
    IN  IF ~IsDigit(c) THEN ParseErr
        ELSE With(IF c = "0" THEN [n |-> 0, next |-> j + 1] ELSE ParseDigits(text, j, 0),
                  LAMBDA d :
                      IF CharAt(text, d.next) \in {".", "e", "E"} THEN ParseErr
                      ELSE ParseOk(Number(IF neg THEN -d.n ELSE d.n), d.next))

\* the closing quote of the string whose first character is at i; 0 when there is none
RECURSIVE StringEnd(_, _)
StringEnd(text, i) ==
    LET c == CharAt(text, i)
    IN  IF c = "" \/ c = "\\" \/ c = "\n" \/ c = "\t" \/ c = "\r" THEN 0
        ELSE IF c = "\"" THEN i
        ELSE StringEnd(text, i + 1)

\* a string whose opening quote is at i: value is the text between the quotes
ParseString(text, i) ==
    IF CharAt(text, i) # "\"" THEN ParseErr
    ELSE With(StringEnd(text, i + 1),
              LAMBDA e : IF e = 0 THEN ParseErr
                         ELSE ParseOk(SubSeq(text, i + 1, e - 1), e + 1))

RECURSIVE ParseValue(_, _)
RECURSIVE ParseElements(_, _, _)
RECURSIVE ParseMembers(_, _, _)

\* after an element v: "," and the next element, or "]"
AfterElement(text, items, v) ==
    IF ~v.ok THEN ParseErr
    ELSE With(SkipWs(text, v.next),
              LAMBDA j :
                  IF CharAt(text, j) = ","
                  THEN With(Append(items, v.value),
                            LAMBDA more : ParseElements(text, j + 1, more))
                  ELSE IF CharAt(text, j) = "]"
                  THEN ParseOk(Array(Append(items, v.value)), j + 1)
                  ELSE ParseErr)

\* the elements of an array after "[" or ","; i is at the next element
ParseElements(text, i, items) ==
    With(ParseValue(text, SkipWs(text, i)), LAMBDA v : AfterElement(text, items, v))

\* after a member's name n and value v: "," and the next member, or "}"
AfterMember(text, members, n, v) ==
    IF ~v.ok THEN ParseErr
    ELSE With(SkipWs(text, v.next),
              LAMBDA m :
                  With(MapInsert(members, n.value, v.value),
                       LAMBDA ins :
                           IF CharAt(text, m) = "," THEN ParseMembers(text, m + 1, ins)
                           ELSE IF CharAt(text, m) = "}" THEN ParseOk(Object(ins), m + 1)
                           ELSE ParseErr))

\* after a member's name n: ":" and the member's value
AfterName(text, members, n) ==
    IF ~n.ok THEN ParseErr
    ELSE With(SkipWs(text, n.next),
              LAMBDA j :
                  IF CharAt(text, j) # ":" THEN ParseErr
                  ELSE With(ParseValue(text, SkipWs(text, j + 1)),
                            LAMBDA v : AfterMember(text, members, n, v)))

\* the members of an object after "{" or ","; i is at the next member's name
ParseMembers(text, i, members) ==
    With(ParseString(text, SkipWs(text, i)), LAMBDA n : AfterName(text, members, n))

ParseValue(text, i) ==
    LET c == CharAt(text, i)
    IN  CASE StartsWith(text, i, "null") -> ParseOk(Null, i + 4)
          [] StartsWith(text, i, "true") -> ParseOk(Bool(TRUE), i + 4)
          [] StartsWith(text, i, "false") -> ParseOk(Bool(FALSE), i + 5)
          [] c = "\"" ->
                With(ParseString(text, i),
                     LAMBDA s : IF s.ok THEN ParseOk(String(s.value), s.next) ELSE ParseErr)
          [] c = "[" ->
                With(SkipWs(text, i + 1),
                     LAMBDA j : IF CharAt(text, j) = "]" THEN ParseOk(Array(<<>>), j + 1)
                                ELSE ParseElements(text, j, <<>>))
          [] c = "{" ->
                With(SkipWs(text, i + 1),
                     LAMBDA j : IF CharAt(text, j) = "}" THEN ParseOk(Object(<<>>), j + 1)
                                ELSE ParseMembers(text, j, <<>>))
          [] c = "-" \/ IsDigit(c) -> ParseNumber(text, i)
          [] OTHER -> ParseErr

\* Ok(value) when the whole text is one JSON value between optional whitespace
from_str(text) ==
    With(ParseValue(text, SkipWs(text, 1)),
         LAMBDA v : IF ~v.ok THEN ParseErr
                    ELSE IF SkipWs(text, v.next) = Len(text) + 1
                    THEN [ok |-> TRUE, value |-> v.value]
                    ELSE ParseErr)

-----------------------------------------------------------------------------
(* JSONFileHandler::find_key_recursive *)

\* MemberToString without the Value::String arm: a string keeps its quotes
MemberToString_Quoted(value) == Some(to_string(value))

\* the matched member's value as the String returned
MemberToString(value) ==
    IF value.t = "string" THEN Some(value.s) ELSE Some(to_string(value))

RECURSIVE find_key_recursive(_, _)
RECURSIVE FirstFound(_, _, _)

\* the `for` loops: the first Some among the searches of values[i], values[i+1], ...
FirstFound(values, i, k) ==
    IF i > Len(values) THEN None
    ELSE LET f == find_key_recursive(values[i], k)
         IN  IF f.some THEN f ELSE FirstFound(values, i + 1, k)

MapValues(members) == [i \in 1..Len(members) |-> members[i].value]

\* ObjectArm with the two steps swapped: the member values are searched first
ObjectArm_ChildrenFirst(members, k) ==
    LET deeper == FirstFound(MapValues(members), 1, k)
    IN  IF deeper.some THEN deeper
        ELSE IF MapContainsKey(members, k) THEN MemberToString(MapGet(members, k))
        ELSE None

\* the Value::Object arm
ObjectArm(members, k) ==
    IF MapContainsKey(members, k) THEN MemberToString(MapGet(members, k))
    ELSE FirstFound(MapValues(members), 1, k)

\* the Value::Array arm
ArrayArm(items, k) == FirstFound(items, 1, k)

find_key_recursive(v, k) ==
    CASE v.t = "object" -> ObjectArm(v.members, k)
      [] v.t = "array" -> ArrayArm(v.items, k)
      [] OTHER -> None

-----------------------------------------------------------------------------
(* The documents find_key_recursive is run on: every Value of at most      *)
(* MaxNodes nodes over Scalars and Names, an object's members in every     *)
(* order (the Map's iteration order is the build's: by name, or by         *)
(* insertion with serde_json's preserve_order).                            *)

Names == {"key", "a"}

Scalars == {Null, Bool(TRUE), Number(123), String("deep"), String("shallow")}

\* the orders in which len distinct names can stand
NameSeqs(len) ==
    {ns \in [1..len -> Names] : \A i, j \in 1..len : ns[i] = ns[j] => i = j}

RECURSIVE DocsOfSize(_)
RECURSIVE Forests(_)

\* the sequences of documents of n nodes in all
Forests(n) ==
    IF n = 0 THEN {<<>>}
    ELSE UNION {{<<d>> \o f : d \in DocsOfSize(k), f \in Forests(n - k)} : k \in 1..n}

DocsOfSize(n) ==
    IF n = 1 THEN Scalars \cup {Array(<<>>), Object(<<>>)}
    ELSE {Array(f) : f \in Forests(n - 1)}
         \cup UNION {{Object([i \in 1..Len(f) |-> Member(ns[i], f[i])]) :
                         ns \in NameSeqs(Len(f))} :
                     f \in {g \in Forests(n - 1) : Len(g) <= Cardinality(Names)}}

Docs == UNION {DocsOfSize(n) : n \in 1..MaxNodes}

-----------------------------------------------------------------------------
(* The sources the handlers read. *)

\* the keys handle_request is called with
Keys == {"verbosity", "input"}

\* clap's ArgMatches: the ids the command defines, and the values given on the command line
ArgMatchesSet ==
    { [valid_args |-> {"input"}, values |-> <<>>],
      [valid_args |-> {"input", "verbosity"}, values |-> <<>>],
      [valid_args |-> {"input", "verbosity"}, values |-> [n \in {"verbosity"} |-> "trace"]] }

\* ArgMatches::get_one::<String>(id).  clap unwraps try_get_one: an id the
\* command does not define is MatchesError::UnknownArgument, which clap
\* checks under cfg(debug_assertions) only, and the unwrap panics on it.
get_one(matches, id) ==
    IF debug_assertions /\ id \notin matches.valid_args THEN Panic
    ELSE IF id \in DOMAIN matches.values THEN Some(matches.values[id])
    ELSE None

\* the process environments: "verbosity" unset or empty, "FIXME_verbosity" unset or "debug"
Environments ==
    { <<>>,
      [n \in {"verbosity"} |-> ""],
      [n \in {"FIXME_verbosity"} |-> "debug"],
      [n \in {"verbosity", "FIXME_verbosity"} |-> IF n = "verbosity" THEN "" ELSE "debug"] }

\* std::env::var(name): Ok(value) when the variable is set
env_var(name) == IF name \in DOMAIN env THEN Some(env[name]) ELSE None

\* the prefixes a caller configures: none, or main.rs's "FIXME_"
Prefixes == {"", "FIXME_"}

\* the one path of the model that may hold a file; "" never opens
RealPath == "~/.config/fixme/verbosity"

Paths == {"", RealPath}

FileMissing == [state |-> "missing"]

\* a file that opens and whose read_to_string fails (such as bytes that are not UTF-8)
FileUnreadable == [state |-> "unreadable"]

FileText(text) == [state |-> "text", content |-> text]

FileStates ==
    { FileMissing, FileUnreadable,
      FileText("test_content\n"),
      FileText("{\"test_key\": 123}\n"),
      FileText("{\"test_obj\": {\"verbosity\": 123}}\n") }

\* File::open(path) and file.read_to_string(&mut content), as Some(content) when both succeed
read_file(path) ==
    IF path = RealPath /\ file.state = "text" THEN Some(file.content) ELSE None

-----------------------------------------------------------------------------
(* The handlers.  A handler's `next` is the rest of the chain: has_next    *)
(* tells whether it is Some, and nx is what next.handle_request(key) does: *)
(* [ret |-> its Option<String> or Panic, log |-> the handlers it invoked]. *)

ArgHandler == [type |-> "Arg"]

EnvHandler == [type |-> "Env"]

FileHandler(file_path) == [type |-> "File", file_path |-> file_path]

JSONFileHandler(file_path) == [type |-> "JSON", file_handler |-> FileHandler(file_path)]

DefaultHandler(value) == [type |-> "Default", value |-> value]

DefaultValues == {"info", "123"}

\* the handlers that hold a `next`
Forwarding ==
    {ArgHandler, EnvHandler}
        \cup {FileHandler(p) : p \in Paths} \cup {JSONFileHandler(p) : p \in Paths}

Handlers == Forwarding \cup {DefaultHandler(v) : v \in DefaultValues}

\* a DefaultHandler holds no `next`, so it can only end a chain
Chains ==
    UNION {{c \in [1..n -> Handlers] : \A i \in 1..(n - 1) : c[i] \in Forwarding} :
           n \in 1..MaxChain}

Returned(ret, log) == [ret |-> ret, log |-> log]

\* ArgHandler asking its `next` before its own arguments
ArgHandler_handle_request_NextFirst(k, has_next, nx) ==
    LET value == get_one(args, k)
    IN  IF has_next /\ nx.ret.some THEN nx
        ELSE IF value.panic THEN Returned(Panic, <<>>)
        ELSE IF value.some THEN Returned(value, <<>>)
        ELSE Returned(None, <<>>)

ArgHandler_handle_request(k, has_next, nx) ==
    LET value == get_one(args, k)
    IN  IF value.panic THEN Returned(Panic, <<>>)
        ELSE IF value.some THEN Returned(value, <<>>)
        ELSE IF has_next THEN nx
        ELSE Returned(None, <<>>)

EnvHandler_handle_request(k, has_next, nx) ==
    LET value == env_var(k)
    IN  IF value.some THEN Returned(value, <<>>)
        ELSE IF has_next THEN nx
        ELSE Returned(None, <<>>)

FileHandler_handle_request(self, k, has_next, nx) ==
    LET content == read_file(self.file_path)
    IN  IF content.some THEN Returned(content, <<>>)
        ELSE IF has_next THEN nx
        ELSE Returned(None, <<>>)

\* the inner file_handler shares the JSONFileHandler's `next`; after a parse
\* error the else branch calls that `next` itself
JSONFileHandler_handle_request(self, k, has_next, nx) ==
    LET file_data == FileHandler_handle_request(self.file_handler, k, has_next, nx)
    IN  IF file_data.ret.panic THEN file_data
        ELSE IF file_data.ret.some
        THEN LET parsed_json == from_str(file_data.ret.val)
             IN  IF parsed_json.ok
                 THEN LET value == find_key_recursive(parsed_json.value, k)
                      IN  IF value.some THEN Returned(value, file_data.log)
                          ELSE Returned(None, file_data.log)
                 ELSE IF has_next THEN Returned(nx.ret, file_data.log \o nx.log)
                 ELSE Returned(None, file_data.log)
        ELSE Returned(None, file_data.log)

DefaultHandler_handle_request(self, k) == Returned(Some(self.value), <<>>)

\* the dynamic dispatch of Box<dyn Handler>: chain[i].handle_request(k), logged
RECURSIVE Dispatch(_, _)
Dispatch(i, k) ==
    LET self == chain[i]
        has_next == i < Len(chain)
        nx == IF has_next THEN Dispatch(i + 1, k) ELSE Returned(None, <<>>)
        r == CASE self.type = "Arg" -> ArgHandler_handle_request(k, has_next, nx)
               [] self.type = "Env" -> EnvHandler_handle_request(k, has_next, nx)
               [] self.type = "File" -> FileHandler_handle_request(self, k, has_next, nx)
               [] self.type = "JSON" -> JSONFileHandler_handle_request(self, k, has_next, nx)
               [] self.type = "Default" -> DefaultHandler_handle_request(self, k)
    IN  Returned(r.ret, <<i>> \o r.log)

-----------------------------------------------------------------------------
(* The chain: built once, then asked for keys. *)

Init ==
    /\ chain \in Chains
    /\ args \in ArgMatchesSet
    /\ env \in Environments
    /\ file \in FileStates
    /\ prefix \in Prefixes
    /\ debug_assertions \in BOOLEAN
    /\ key = ""
    /\ out = NotCalled
    /\ json_value = Null
    /\ json_key = ""
    /\ found = NotCalled

\* handle_request(k) on the head of the chain
Call(k) ==
    /\ key' = k
    /\ out' = [called |-> TRUE] @@ Dispatch(1, k)
    /\ UNCHANGED <<chain, args, env, file, prefix, debug_assertions,
                   json_value, json_key, found>>

ArgHandlerRequest(k) == chain[1].type = "Arg" /\ Call(k)

EnvHandlerRequest(k) == chain[1].type = "Env" /\ Call(k)

FileHandlerRequest(k) == chain[1].type = "File" /\ Call(k)

JSONFileHandlerRequest(k) == chain[1].type = "JSON" /\ Call(k)

DefaultHandlerRequest(k) == chain[1].type = "Default" /\ Call(k)

Next ==
    \E k \in Keys :
        \/ ArgHandlerRequest(k)
        \/ EnvHandlerRequest(k)
        \/ FileHandlerRequest(k)
        \/ JSONFileHandlerRequest(k)
        \/ DefaultHandlerRequest(k)

Spec == Init /\ [][Next]_vars

-----------------------------------------------------------------------------
(* find_key_recursive on its own: a document and a key, then the search. *)

InitJson ==
    /\ json_value \in Docs
    /\ json_key \in Names
    /\ found = NotCalled
    /\ chain = <<DefaultHandler("info")>>
    /\ args = [valid_args |-> {"input"}, values |-> <<>>]
    /\ env = <<>>
    /\ file = FileMissing
    /\ prefix = ""
    /\ debug_assertions = FALSE
    /\ key = ""
    /\ out = NotCalled

FindKey ==
    /\ found' = [called |-> TRUE] @@ find_key_recursive(json_value, json_key)
    /\ UNCHANGED <<chain, args, env, file, prefix, debug_assertions, key, out,
                   json_value, json_key>>

NextJson == FindKey

SpecJson == InitJson /\ [][NextJson]_vars

-----------------------------------------------------------------------------
(* The vocabulary of the properties. *)

\* k names a member somewhere in v
RECURSIVE KeyOccurs(_, _)
KeyOccurs(v, k) ==
    CASE v.t = "object" ->
            \E i \in 1..Len(v.members) :
                v.members[i].name = k \/ KeyOccurs(v.members[i].value, k)
      [] v.t = "array" -> \E i \in 1..Len(v.items) : KeyOccurs(v.items[i], k)
      [] OTHER -> FALSE

\* the values of the members named k anywhere in v
RECURSIVE ValuesNamed(_, _)
ValuesNamed(v, k) ==
    CASE v.t = "object" ->
            UNION {(IF v.members[i].name = k THEN {v.members[i].value} ELSE {})
                       \cup ValuesNamed(v.members[i].value, k) : i \in 1..Len(v.members)}
      [] v.t = "array" -> UNION {ValuesNamed(v.items[i], k) : i \in 1..Len(v.items)}
      [] OTHER -> {}

\* text holds no whitespace
Compact(text) == \A i \in 1..Len(text) : ~IsWs(CharAt(text, i))

\* text is digits after an optional "-"
DecimalDigits(text) ==
    /\ Len(text) >= 1
    /\ \A i \in 1..Len(text) : IsDigit(CharAt(text, i)) \/ (i = 1 /\ CharAt(text, i) = "-")

\* text reads back as the value v
ReadsBackAs(text, v) == from_str(text) = [ok |-> TRUE, value |-> v]

\* text is what the search returns for a matched member whose value is v
ShownAs(text, v) ==
    CASE v.t = "string" -> text = v.s
      [] v.t = "number" ->
            DecimalDigits(text) /\ ReadsBackAs(text, v) /\ (v.n = 123 => text = "123")
      [] OTHER -> Compact(text) /\ ReadsBackAs(text, v)

\* the head of the chain and what its own source holds for the key of the last call
Head1 == chain[1]

HasNext == Len(chain) > 1

\* what the head's `next` returns for the key of the last call, None without a `next`
NextRet == IF HasNext THEN Dispatch(2, key).ret ELSE None

FileReadable(h) == h.file_path = RealPath /\ file.state = "text"

JsonParses(h) == FileReadable(h.file_handler) /\ from_str(file.content).ok

JsonHoldsKey(h) == JsonParses(h) /\ KeyOccurs(from_str(file.content).value, key)

\* the head's own source supplies a value for the key
OwnSupplies ==
    CASE Head1.type = "Arg" -> key \in DOMAIN args.values
      [] Head1.type = "Env" -> key \in DOMAIN env
      [] Head1.type = "File" -> FileReadable(Head1)
      [] Head1.type = "JSON" -> JsonHoldsKey(Head1)
      [] Head1.type = "Default" -> TRUE

\* the value the head's own source supplies
OwnValue ==
    CASE Head1.type = "Arg" -> args.values[key]
      [] Head1.type = "Env" -> env[key]
      [] Head1.type = "File" -> file.content
      [] Head1.type = "JSON" -> find_key_recursive(from_str(file.content).value, key).val
      [] Head1.type = "Default" -> Head1.value

\* how often handler i was invoked in the last call
Invocations(i) == Cardinality({n \in 1..Len(out.log) : out.log[n] = i})

-----------------------------------------------------------------------------
(* The properties. *)

\* C1: a chain whose last handler is a DefaultHandler never returns None, for
\* every key and every state of the arguments, environment and files.  (A
\* call that panics returns nothing at all: that is C6's matter, and passes
\* here.)
C1_DefaultChainReturnsValue ==
    (out.called /\ chain[Len(chain)].type = "Default") => out.ret # None

\* C2: when JSONFileHandler's file is read, parses as JSON and holds the key
\* nowhere, handle_request returns the next handler's result, and None only
\* when there is no next handler.
C2_AbsentKeyDelegates ==
    (out.called /\ Head1.type = "JSON" /\ JsonParses(Head1) /\ ~JsonHoldsKey(Head1))
        => out.ret = NextRet

\* C3: when JSONFileHandler's file cannot be opened or read, or is not valid
\* JSON, handle_request returns exactly what the next handler returns,
\* whatever that text is, and None when there is no next handler.
C3_UnreadableOrUnparsableDelegates ==
    (out.called /\ Head1.type = "JSON" /\ ~JsonParses(Head1)) => out.ret = NextRet

\* C4: when the first handler's own source supplies a value for the key
\* (argument present, variable set, file readable, JSON file readable and
\* holding the key, or a default), the chain returns that value and invokes
\* no later handler.
C4_ShortCircuit ==
    (out.called /\ OwnSupplies) => (out.ret = Some(OwnValue) /\ out.log = <<1>>)

\* C4's case: a JSONFileHandler with a next handler answers from its own file.
C4_Witness ==
    /\ out.called
    /\ HasNext
    /\ Head1.type = "JSON"
    /\ OwnSupplies
    /\ out.ret = Some("123")
    /\ out.log = <<1>>

\* C5: during one handle_request call every handler of the chain is invoked
\* at most once.
C5_EachHandlerOnce ==
    out.called => \A i \in 1..Len(chain) : Invocations(i) <= 1

\* C6: handle_request never panics: it returns a value or None for every
\* key, the keys its source does not define included.
C6_NeverPanics == out.called => ~out.ret.panic

C8_FoundValueRendering ==
    (found.called /\ found.some)
        => \E v \in ValuesNamed(json_value, json_key) : ShownAs(found.val, v)

\* C8's case: {"key": 123} searched for "key" gives "123".
C8_Witness ==
    /\ found.called
    /\ json_key = "key"
    /\ json_value = Object(<<Member("key", Number(123))>>)
    /\ found.some
    /\ found.val = "123"

\* C9: EnvHandler queries the variable named prefix + key; set, even to the
\* empty string, its value is returned; unset, the next handler is asked.
C9_EnvQueriesPrefixedName ==
    (out.called /\ Head1.type = "Env")
        => out.ret = (IF (prefix \o key) \in DOMAIN env THEN Some(env[prefix \o key])
                      ELSE NextRet)

\* C10: ArgHandler, EnvHandler and FileHandler return exactly the next
\* handler's result (None without one) when their own source has no value;
\* a readable file's whole content is FileHandler's result, whatever the key.
C10_EmptySourceDelegates ==
    out.called =>
        /\ (Head1.type = "Arg" /\ key \notin DOMAIN args.values) => out.ret = NextRet
        /\ (Head1.type = "Env" /\ key \notin DOMAIN env) => out.ret = NextRet
        /\ (Head1.type = "File" /\ ~FileReadable(Head1)) => out.ret = NextRet
        /\ (Head1.type = "File" /\ FileReadable(Head1)) => out.ret = Some(file.content)

====
